---------------------------- MODULE Spec2Model ----------------------------
(***************************************************************************)
(* Patch-based spectrogram inference of the vocal remover: the Separator   *)
(* class of inference.py (separate, separate_tta, _separate, _preprocess,  *)
(* _postprocess).                                                          *)
(*                                                                         *)
(* A spectrogram [channel, frequency, time] is modelled by one             *)
(* representative (channel, frequency) bin: a sequence over time.  No      *)
(* operation of the Separator mixes channels or bins, and every slice,     *)
(* pad and concatenation acts on the time axis (axis 2).                   *)
(*                                                                         *)
(* Numbers are exact.  A complex number is a pair <<re, im>> of integers   *)
(* lying on an axis, so that np.abs and np.angle are exact.  A real        *)
(* number that results from a division is a fraction <<num, den>>; the     *)
(* fraction <<0, 0>> is the NaN that the division 0/0 produces.            *)
(*                                                                         *)
(* Python sequences are 0-based, TLA+ sequences 1-based: frame t of the    *)
(* code is element t+1 here.                                               *)
(***************************************************************************)
EXTENDS Integers, Sequences, FiniteSets

\* ------------------------------------------------------------------
\* Bounds of the model
\* ------------------------------------------------------------------
MaxFrames == 4
MaxCrop == 5
MaxOffset == 1
MaxBatch == 2

\* The values one bin of the input spectrogram takes: silence, and a value
\* of magnitude 2 and phase -pi/2.
SpecVals == { <<0, 0>>, <<0, -2>> }

\* The fixed networks: one that returns the constant mask value 0.7 whatever
\* its input, one that looks at its input (its values are 0, 0.75 and 1.5, the
\* last one outside [0,1]).
Models ==
    { [kind |-> "const", m |-> <<7, 10>>],
      [kind |-> "thresh", m |-> <<0, 1>>] }

\* A frame that comes from padding describes no input frame.
NoFrame == 0 - 1

None == <<>>

VARIABLES
    X_spec,        \* the input spectrogram (one bin over time)
    model,         \* self.model
    offset,        \* self.offset = model.offset
    batchsize,     \* self.batchsize
    cropsize,      \* self.cropsize
    postprocess,   \* self.postprocess
    stepCallback,  \* TRUE when a callback is supplied, FALSE when it is None
    tta,           \* run(): separate_tta is called instead of separate
    pc,            \* "start", "loop" (between two predict_mask calls), "done", "raised"
    pass,          \* which call of _separate is running (1, or 2 in separate_tta)
    pad_l, pad_r, roi_size,
    X_mag_pad,     \* the padded, normalised magnitude handed to _separate
    X_dataset,     \* the patches of _separate
    patches,
    i,             \* the loop variable of the batch loop
    acc,           \* _separate's list `mask`, concatenated so far
    mask,          \* separate / separate_tta's `mask`
    mask_tta,      \* separate_tta's `mask_tta`
    y_spec, v_spec,\* the returned spectrograms
    error,         \* the exception that reached the caller, or "none"
    log            \* the calls made to the collaborators, in order

vars == << X_spec, model, offset, batchsize, cropsize, postprocess, stepCallback,
           tta, pc, pass, pad_l, pad_r, roi_size, X_mag_pad, X_dataset, patches,
           i, acc, mask, mask_tta, y_spec, v_spec, error, log >>

config == << X_spec, model, offset, batchsize, cropsize, postprocess, stepCallback, tta >>

\* ------------------------------------------------------------------
\* Arithmetic and slices
\* ------------------------------------------------------------------
Min(a, b) == IF a < b THEN a ELSE b

AbsInt(a) == IF a < 0 THEN -a ELSE a

\* Python's s[a:b] for 0 <= a: the slice is clipped to the end of s.
Slice(s, a, b) == SubSeq(s, a + 1, Min(b, Len(s)))

\* Python's s[a:] for 0 <= a.
SliceFrom(s, a) == SubSeq(s, a + 1, Len(s))

RECURSIVE Concat(_)
\* np.concatenate of a list of arrays along the time axis.
Concat(ss) == IF ss = <<>> THEN <<>> ELSE Head(ss) \o Concat(Tail(ss))

RECURSIVE SeqMax(_)
\* ndarray.max() of a non-empty array of non-negative integers.
SeqMax(s) ==
    IF Len(s) = 1 THEN s[1]
    ELSE LET m == SeqMax(Tail(s)) IN IF s[1] > m THEN s[1] ELSE m

IsNaN(r) == r[2] = 0

\* Equality of two numbers given as fractions; NaN equals nothing.
REq(a, b) == ~IsNaN(a) /\ ~IsNaN(b) /\ a[1] * b[2] = b[1] * a[2]


\* ------------------------------------------------------------------
\* Collaborators that inference.py calls (lib.dataset, lib.nets, lib.spec_utils)
\* ------------------------------------------------------------------

\* dataset.make_padding(width, cropsize, offset) -> (left, right, roi_size):
\* roi_size = cropsize - 2*offset; the padded total is the smallest multiple
\* of roi_size that is >= width, plus 2*offset; left = offset.  It fails with
\* InvalidConfiguration when roi_size <= 0.
make_padding(width, crop, off) ==
    LET roi == crop - 2 * off IN
    IF roi <= 0
    THEN [ok |-> FALSE, left |-> 0, right |-> 0, roi_size |-> roi]
    ELSE LET total == ((width + roi - 1) \div roi) * roi + 2 * off IN
         [ok |-> TRUE, left |-> off, right |-> total - width - off, roi_size |-> roi]

\* x >= 0.5 for a fraction x; every comparison with NaN is false.
GeHalf(x) == ~IsNaN(x) /\ 2 * x[1] >= x[2]

\* model.predict_mask on one patch: cropsize input frames give
\* cropsize - 2*offset mask frames, output frame j being computed for input
\* frame offset + j of the patch (the margins of `offset` frames are cropped).
\* The network is fixed and deterministic: the "const" ones return m, the
\* "thresh" one returns 0.75 for each of the input frame and the first frame
\* of the patch that reaches 0.5.
PredictPatch(mdl, off, patch) ==
    [ j \in 1 .. (Len(patch) - 2 * off) |->
        [ v  |-> IF mdl.kind = "const" THEN mdl.m
                 ELSE << (IF GeHalf(patch[off + j].v) THEN 3 ELSE 0)
                         + (IF GeHalf(patch[1].v) THEN 3 ELSE 0), 4 >>,
          at |-> patch[off + j].at ] ]

\* spec_utils.merge_artifacts(mask): an opaque function from masks to masks of
\* the same shape.  Its outcomes here: the mask unchanged, or every frame
\* raised to 1.
MergeOutcomes(m) == { m, [ t \in DOMAIN m |-> [ v |-> <<1, 1>>, at |-> m[t].at ] ] }

\* ------------------------------------------------------------------
\* Separator
\* ------------------------------------------------------------------

\* np.abs and np.angle of a complex number on an axis; the angle in quarter
\* turns within (-pi, pi].
Abs(z) == AbsInt(z[1]) + AbsInt(z[2])

Angle(z) ==
    IF z[2] > 0 THEN 1
    ELSE IF z[2] < 0 THEN 0 - 1
    ELSE IF z[1] < 0 THEN 2 ELSE 0

\* np.exp(1.j * phase) for a phase in quarter turns.
ExpI(q) ==
    IF q = 0 THEN <<1, 0>>
    ELSE IF q = 1 THEN <<0, 1>>
    ELSE IF q = 2 THEN <<0 - 1, 0>> ELSE <<0, 0 - 1>>

\* _preprocess
X_mag_of(spec) == [ t \in DOMAIN spec |-> Abs(spec[t]) ]

X_phase_of(spec) == [ t \in DOMAIN spec |-> Angle(spec[t]) ]

\* Pad with the right padding forgotten.
Pad_NoRight(mag, l, r) ==
    [ t \in 1 .. (l + Len(mag)) |->
        IF t > l
        THEN [ x |-> mag[t - l], at |-> t - l - 1 ]
        ELSE [ x |-> 0, at |-> NoFrame ] ]

\* np.pad(X_mag, ((0, 0), (0, 0), (pad_l, pad_r)), mode='constant'), each frame
\* with the input frame it is (NoFrame for a frame of padding).
Pad(mag, l, r) ==
    [ t \in 1 .. (l + Len(mag) + r) |->
        IF t > l /\ t <= l + Len(mag)
        THEN [ x |-> mag[t - l], at |-> t - l - 1 ]
        ELSE [ x |-> 0, at |-> NoFrame ] ]

\* X_mag_pad /= X_mag_pad.max(): each frame divided by the maximum; on an
\* all-zero array this is 0/0.
Normalise(padded) ==
    LET mx == SeqMax([ t \in DOMAIN padded |-> padded[t].x ]) IN
    [ t \in DOMAIN padded |-> [ v |-> << padded[t].x, mx >>, at |-> padded[t].at ] ]

\* PatchCount one patch short.
PatchCount_Short(width, off, roi) == (width - 2 * off) \div roi - 1

\* Crop with the patches laid side by side (stride cropsize) instead of
\* overlapping by the margins (stride roi_size).
Crop_Stride(padded, k, roi, crop) == Slice(padded, k * crop, k * crop + crop)

\* _separate, lines 30-36: the number of patches and the patches.
PatchCount(width, off, roi) == (width - 2 * off) \div roi

Crop(padded, k, roi, crop) == Slice(padded, k * roi, k * roi + crop)

Tile(padded, off, roi, crop) ==
    [ k \in 1 .. PatchCount(Len(padded), off, roi) |-> Crop(padded, k - 1, roi, crop) ]

\* Batch with the last patch of every batch left out.
Batch_DropLast(ds, k, bs) == Slice(ds, k, k + bs - 1)

\* _separate, lines 45-51: the batch that starts at patch k and its prediction,
\* the per-patch outputs concatenated along time.
Batch(ds, k, bs) == Slice(ds, k, k + bs)

PredictBatch(mdl, off, batch) ==
    Concat([ b \in DOMAIN batch |-> PredictPatch(mdl, off, batch[b]) ])

\* f"{i/patches:.2%}": the percentage with two decimals, as the integer number
\* of hundredths of a percent, rounded half to even.
Percent2(num, den) ==
    LET q == (num * 10000) \div den
        r == (num * 10000) % den
    IN  IF 2 * r > den THEN q + 1
        ELSE IF 2 * r = den THEN q + (q % 2)
        ELSE q

\* The elementwise operations of numpy on two arrays along time: the shapes
\* agree, or one of them has a single frame (broadcast); otherwise ValueError.
Broadcastable(a, b) == Len(a) = Len(b) \/ Len(a) = 1 \/ Len(b) = 1

BLen(a, b) == IF Len(a) = 1 THEN Len(b) ELSE Len(a)

BAt(a, t) == IF Len(a) = 1 THEN a[1] ELSE a[t]

\* (mask[:, :, :n_frame] + mask_tta[:, :, :n_frame]) * 0.5
Average(a, b) ==
    [ t \in 1 .. BLen(a, b) |->
        [ v  |-> << BAt(a, t).v[1] * BAt(b, t).v[2] + BAt(b, t).v[1] * BAt(a, t).v[2],
                    2 * BAt(a, t).v[2] * BAt(b, t).v[2] >>,
          at |-> BAt(a, t).at ] ]

\* A fraction times an integer times a unit complex number.
Scale(f, mag, u) == [ re |-> << f[1] * mag * u[1], f[2] >>,
                      im |-> << f[1] * mag * u[2], f[2] >> ]

\* V_spec with the mask itself in place of its complement.
V_spec_NoComplement(m, mag, phase) ==
    [ t \in 1 .. BLen(m, mag) |->
        Scale(BAt(m, t).v, BAt(mag, t), ExpI(BAt(phase, t))) ]

\* _postprocess, lines 68-69, for the mask m after the optional merge.
Y_spec(m, mag, phase) ==
    [ t \in 1 .. BLen(m, mag) |->
        Scale(BAt(m, t).v, BAt(mag, t), ExpI(BAt(phase, t))) ]

V_spec(m, mag, phase) ==
    [ t \in 1 .. BLen(m, mag) |->
        Scale(<< BAt(m, t).v[2] - BAt(m, t).v[1], BAt(m, t).v[2] >>,
              BAt(mag, t), ExpI(BAt(phase, t))) ]

\* _postprocess, line 65-66: the masks the optional merge may return.
Merged(pp, m) == IF pp THEN MergeOutcomes(m) ELSE { m }

\* ------------------------------------------------------------------
\* The state machine: one run of run() on one input
\* ------------------------------------------------------------------
n_frame == Len(X_spec)

X_mag == X_mag_of(X_spec)

X_phase == X_phase_of(X_spec)

Event(e, p, a, b) == [ev |-> e, pass |-> p, i |-> a, n |-> b]

\* Separator.__init__ and the arguments of run().
Init ==
    /\ X_spec \in UNION { [1 .. n -> SpecVals] : n \in 1 .. MaxFrames }
    /\ model \in Models
    /\ offset \in 0 .. MaxOffset
    /\ cropsize \in 1 .. MaxCrop
    /\ cropsize >= 2 * offset
    /\ batchsize \in 1 .. MaxBatch
    /\ postprocess \in BOOLEAN
    /\ stepCallback \in BOOLEAN
    /\ tta \in BOOLEAN
    /\ pc = "start"
    /\ pass = 0
    /\ pad_l = 0 /\ pad_r = 0 /\ roi_size = 0
    /\ X_mag_pad = <<>>
    /\ X_dataset = <<>>
    /\ patches = 0
    /\ i = 0
    /\ acc = <<>>
    /\ mask = None
    /\ mask_tta = None
    /\ y_spec = None
    /\ v_spec = None
    /\ error = "none"
    /\ log = <<>>

Raise(e) ==
    /\ pc' = "raised"
    /\ error' = e

\* The call self._separate(X_mag_pad, roi_size) up to its first predict_mask:
\* lines 29-40.  np.asarray needs patches of one shape, and an empty loop
\* leaves np.concatenate (line 54) nothing to concatenate.
EnterSeparate(padded, roi, p) ==
    LET ds == Tile(padded, offset, roi, cropsize) IN
    /\ X_mag_pad' = padded
    /\ X_dataset' = ds
    /\ patches' = Len(ds)
    /\ i' = 0
    /\ acc' = <<>>
    /\ pass' = p
    /\ IF Len(ds) = 0 \/ \E k \in DOMAIN ds : Len(ds[k]) # cropsize
       THEN Raise("ValueError")
       ELSE pc' = "loop" /\ error' = error

\* separate / separate_tta, lines 74-81 and 89-96: decompose, pad, normalise
\* and start the first pass.
Begin ==
    LET p == make_padding(n_frame, cropsize, offset) IN
    /\ pc = "start"
    /\ IF p.ok
       THEN /\ pad_l' = p.left
            /\ pad_r' = p.right
            /\ roi_size' = p.roi_size
            /\ EnterSeparate(Normalise(Pad(X_mag, p.left, p.right)), p.roi_size, 1)
       ELSE /\ Raise("InvalidConfiguration")
            /\ UNCHANGED << pad_l, pad_r, roi_size, X_mag_pad, X_dataset, patches,
                            i, acc, pass >>
    /\ UNCHANGED << config, mask, mask_tta, y_spec, v_spec, log >>

Separate ==
    /\ ~tta
    /\ Begin

SeparateTTA ==
    /\ tta
    /\ Begin

\* Dispatch with the callback invoked after the batch has been dispatched.
Dispatch_CallbackLast ==
    << Event("predict", pass, i, Len(Batch(X_dataset, i, batchsize))) >>
    \o (IF stepCallback
        THEN << Event("callback", pass, Percent2(i, patches), 0) >>
        ELSE << >>)

\* What one iteration of the batch loop logs before predict_mask answers:
\* the callback (lines 43-44), then the dispatch of the batch (line 48).
Dispatch ==
    (IF stepCallback
     THEN << Event("callback", pass, Percent2(i, patches), 0) >>
     ELSE << >>)
    \o << Event("predict", pass, i, Len(Batch(X_dataset, i, batchsize))) >>

\* One iteration of the loop of _separate (lines 42-52), predict_mask returning.
BatchStep ==
    /\ pc = "loop"
    /\ i < patches
    /\ log' = log \o Dispatch \o << Event("result", pass, i, 0) >>
    /\ acc' = acc \o PredictBatch(model, offset, Batch(X_dataset, i, batchsize))
    /\ i' = i + batchsize
    /\ UNCHANGED << config, pc, pass, pad_l, pad_r, roi_size, X_mag_pad, X_dataset,
                    patches, mask, mask_tta, y_spec, v_spec, error >>

\* BatchRaises with the error caught and the batch tried again.
BatchRaises_Retry ==
    /\ pc = "loop"
    /\ i < patches
    /\ Len(log) < 12
    /\ log' = log \o Dispatch \o << Event("raise", pass, i, 0) >>
    /\ UNCHANGED << config, pc, error, pass, pad_l, pad_r, roi_size, X_mag_pad,
                    X_dataset, patches, i, acc, mask, mask_tta, y_spec, v_spec >>

\* One iteration of the loop, predict_mask raising: nothing catches it in
\* _separate, separate, separate_tta or run.
BatchRaises ==
    /\ pc = "loop"
    /\ i < patches
    /\ log' = log \o Dispatch \o << Event("raise", pass, i, 0) >>
    /\ Raise("InferenceFailure")
    /\ UNCHANGED << config, pass, pad_l, pad_r, roi_size, X_mag_pad, X_dataset,
                    patches, i, acc, mask, mask_tta, y_spec, v_spec >>

\* _postprocess (lines 64-71) on mask m, and the return of the two spectrograms.
Postprocess(m) ==
    \E mm \in Merged(postprocess, m) :
        IF Broadcastable(mm, X_mag)
        THEN /\ y_spec' = Y_spec(mm, X_mag, X_phase)
             /\ v_spec' = V_spec(mm, X_mag, X_phase)
             /\ pc' = "done"
             /\ error' = error
        ELSE /\ Raise("ValueError")
             /\ UNCHANGED << y_spec, v_spec >>

\* separate, lines 81-86, after the loop of _separate has ended.
SeparateReturn ==
    /\ pc = "loop"
    /\ i >= patches
    /\ ~tta
    /\ mask' = Slice(acc, 0, n_frame)
    /\ Postprocess(mask')
    /\ UNCHANGED << config, pass, pad_l, pad_r, roi_size, X_mag_pad, X_dataset,
                    patches, i, acc, mask_tta, log >>

\* separate_tta, lines 96-103: the first pass has ended; pad again, shifted by
\* half a stride, normalise and start the second pass.
TTASecondPass ==
    /\ pc = "loop"
    /\ i >= patches
    /\ tta
    /\ pass = 1
    /\ mask' = acc
    /\ pad_l' = pad_l + roi_size \div 2
    /\ pad_r' = pad_r + roi_size \div 2
    /\ EnterSeparate(Normalise(Pad(X_mag, pad_l', pad_r')), roi_size, 2)
    /\ UNCHANGED << config, roi_size, mask_tta, y_spec, v_spec, log >>

\* separate_tta, lines 103-109: the second pass has ended; drop the shift,
\* average the two masks and postprocess.
TTAReturn ==
    /\ pc = "loop"
    /\ i >= patches
    /\ tta
    /\ pass = 2
    /\ mask_tta' = SliceFrom(acc, roi_size \div 2)
    /\ LET a == Slice(mask, 0, n_frame)
           b == Slice(mask_tta', 0, n_frame)
       IN  IF Broadcastable(a, b)
           THEN /\ mask' = Average(a, b)
                /\ Postprocess(mask')
           ELSE /\ Raise("ValueError")
                /\ UNCHANGED << mask, y_spec, v_spec >>
    /\ UNCHANGED << config, pass, pad_l, pad_r, roi_size, X_mag_pad, X_dataset,
                    patches, i, acc, log >>

Next ==
    \/ Separate
    \/ SeparateTTA
    \/ BatchStep
    \/ BatchRaises
    \/ SeparateReturn
    \/ TTASecondPass
    \/ TTAReturn

Spec == Init /\ [][Next]_vars

\* ------------------------------------------------------------------
\* Vocabulary of the properties
\* ------------------------------------------------------------------

\* The positions of the log that hold an event e of pass p.
Events(e, p) == { k \in DOMAIN log : log[k].ev = e /\ log[k].pass = p }

\* How many events e of pass p the log holds up to position k.
CountUpTo(e, p, k) == Cardinality({ j \in Events(e, p) : j <= k })

\* The run ended without the network failing: separate / separate_tta ran to
\* their last line or to an error of their own.
Ended == pc \in {"done", "raised"} /\ error \notin {"InferenceFailure", "InvalidConfiguration"}

CeilDiv(a, b) == (a + b - 1) \div b

\* The sum of two fractions.
RAdd(a, b) == << a[1] * b[2] + b[1] * a[2], a[2] * b[2] >>

\* ------------------------------------------------------------------
\* C1
\* ------------------------------------------------------------------

\* C1: in separate (single pass), for every input of n_frame >= 1 frames and
\* every cropsize > 2*offset, the assembled mask is never shorter than the
\* input (patches * roi_size >= n_frame), so that the mask trimmed with
\* [:n_frame] and both output spectrograms have exactly n_frame frames and no
\* shape error is raised.
C1_SingleLen ==
    ~tta =>
        /\ pc = "loop" => patches * roi_size >= n_frame
        /\ (pc = "loop" /\ i >= patches) => Len(acc) = patches * roi_size
        /\ error # "ValueError"
        /\ pc = "done" =>
              /\ Len(mask) = n_frame
              /\ Len(y_spec) = n_frame
              /\ Len(v_spec) = n_frame

\* A single-pass run that ended with a mask assembled from several patches,
\* longer than the input, and trimmed.
C1_Witness ==
    /\ ~tta
    /\ pc = "done"
    /\ patches >= 2
    /\ Len(acc) > n_frame
    /\ Len(mask) = n_frame

\* ------------------------------------------------------------------
\* C2
\* ------------------------------------------------------------------

\* C2: in separate_tta, for every n_frame >= 1 and every cropsize > 2*offset,
\* roi_size even or odd, the second-pass mask without its first roi_size // 2
\* frames still has at least n_frame frames, so the two trimmed masks have
\* n_frame frames each, their average is defined (no shape error) and the
\* combined mask has exactly n_frame frames.
C2_DualLen ==
    (tta /\ pass = 2 /\ Ended) =>
        /\ Len(mask_tta) >= n_frame
        /\ error # "ValueError"
        /\ pc = "done"
        /\ Len(mask) = n_frame

\* ------------------------------------------------------------------
\* C3
\* ------------------------------------------------------------------

\* The per-patch outputs of the first k patches of the padded array, one patch
\* at a time, in patch order.
PerPatch(k) ==
    Concat([ q \in 1 .. k |->
               PredictPatch(model, offset, Crop(X_mag_pad, q - 1, roi_size, cropsize)) ])

\* C3: whatever the batch size, the mask _separate assembles is the
\* concatenation along time of the per-patch outputs in patch order
\* 0 .. patches-1, each patch exactly once; the batch size decides only the
\* number of predict_mask calls, ceil(patches / batchsize) when the loop ends.
C3_BatchInvariance ==
    pc = "loop" =>
        LET done == Min(i, patches)
            calls == Events("predict", pass)
        IN  /\ acc = PerPatch(done)
            /\ Cardinality(calls) = CeilDiv(done, batchsize)
            /\ \A k \in calls :
                   /\ log[k].n = Min(batchsize, patches - log[k].i)
                   /\ log[k].i = batchsize * (CountUpTo("predict", pass, k) - 1)

\* A loop that ended after several batches, the last one not full, on a mask
\* whose frames differ.
C3_Witness ==
    /\ pc = "loop"
    /\ i >= patches
    /\ batchsize >= 2
    /\ patches % batchsize # 0
    /\ patches > batchsize
    /\ \E a, b \in DOMAIN acc : acc[a].v # acc[b].v
    /\ acc = PerPatch(patches)

\* ------------------------------------------------------------------
\* C4
\* ------------------------------------------------------------------

\* The input has fewer frames than one roi_size.
ShortInput == n_frame < cropsize - 2 * offset

C5_NoNaN ==
    \A t \in DOMAIN X_mag_pad : ~IsNaN(X_mag_pad[t].v)

\* ------------------------------------------------------------------
\* C6
\* ------------------------------------------------------------------

\* The number of batches of the running pass.
TotalBatches == CeilDiv(patches, batchsize)

\* C6 as stated: the callback is invoked once per batch, its k-th invocation
\* comes after the k-th batch has been dispatched to predict_mask, and it
\* reports k / total_batches.
C6_AfterDispatch ==
    (stepCallback /\ pc = "loop") =>
        \A k \in Events("callback", pass) :
            LET nth == CountUpTo("callback", pass, k) IN
            /\ CountUpTo("predict", pass, k) >= nth
            /\ log[k].i = Percent2(nth, TotalBatches)

\* C6 amended: the callback is invoked once per batch; its k-th invocation
\* comes immediately before the k-th batch is dispatched to predict_mask, and
\* it reports, as a percentage with two decimals, the fraction of the patches
\* handled by the batches before it, (k-1) * batchsize / patches.  Without a
\* callback nothing is reported.
C6_BeforeDispatch ==
    pc = "loop" =>
        IF stepCallback
        THEN /\ Cardinality(Events("callback", pass)) = Cardinality(Events("predict", pass))
             /\ \A k \in Events("callback", pass) :
                    LET nth == CountUpTo("callback", pass, k) IN
                    /\ k < Len(log)
                    /\ log[k + 1].ev = "predict"
                    /\ log[k + 1].pass = pass
                    /\ log[k + 1].i = (nth - 1) * batchsize
                    /\ CountUpTo("predict", pass, k) = nth - 1
                    /\ log[k].i = Percent2((nth - 1) * batchsize, patches)
        ELSE \A k \in DOMAIN log : log[k].ev # "callback"

\* A loop that ended after at least two batches, each reported.
C6_Witness ==
    /\ stepCallback
    /\ pc = "loop"
    /\ i >= patches
    /\ Cardinality(Events("callback", pass)) >= 2
    /\ \E k \in Events("callback", pass) : log[k].i = 3333

\* ------------------------------------------------------------------
\* C7
\* ------------------------------------------------------------------

\* C7: with postprocess disabled, at every position the two outputs of
\* _postprocess sum to the original spectrogram, whatever the mask value
\* (inside [0,1] or not), for separate and for separate_tta.
C7_Energy ==
    (pc = "done" /\ ~postprocess) =>
        /\ Len(y_spec) = n_frame
        /\ Len(v_spec) = n_frame
        /\ \A t \in 1 .. n_frame :
               /\ REq(RAdd(y_spec[t].re, v_spec[t].re), << X_spec[t][1], 1 >>)
               /\ REq(RAdd(y_spec[t].im, v_spec[t].im), << X_spec[t][2], 1 >>)

\* A run without postprocess that ended with a mask value outside [0,1] on a
\* frame that is not silent, and one inside on another.
C7_Witness ==
    /\ pc = "done"
    /\ ~postprocess
    /\ \E t \in DOMAIN mask :
           /\ mask[t].v[1] > mask[t].v[2]
           /\ X_spec[t] # <<0, 0>>
           /\ y_spec[t].im # v_spec[t].im
    /\ \E t \in DOMAIN mask : mask[t].v[1] < mask[t].v[2] /\ mask[t].v[1] > 0

\* ------------------------------------------------------------------
\* C8
\* ------------------------------------------------------------------

\* C8: with a model that returns the constant m for every patch, the combined
\* mask of separate_tta is m at every one of the n_frame positions.
C8_Symmetry ==
    (tta /\ model.kind = "const" /\ pass = 2 /\ Ended) =>
        /\ pc = "done"
        /\ Len(mask) = n_frame
        /\ \A t \in DOMAIN mask : REq(mask[t].v, model.m)

\* ------------------------------------------------------------------
\* C9
\* ------------------------------------------------------------------

\* C9: batches are dispatched one at a time, each after the result of the one
\* before; when predict_mask raises, that error reaches the caller, the
\* failed batch is not dispatched again, no later batch is dispatched, and no
\* mask and no spectrogram is returned.
C9_Failure ==
    /\ \A k \in DOMAIN log :
           /\ log[k].ev = "predict" =>
                  /\ k < Len(log)
                  /\ log[k + 1].ev \in {"result", "raise"}
                  /\ log[k + 1].pass = log[k].pass
                  /\ log[k + 1].i = log[k].i
                  /\ \A j \in DOMAIN log :
                         (log[j].ev = "predict" /\ log[j].pass = log[k].pass
                            /\ log[j].i = log[k].i) => j = k
           /\ log[k].ev = "raise" =>
                  /\ k = Len(log)
                  /\ error = "InferenceFailure"
    /\ error = "InferenceFailure" =>
           /\ pc = "raised"
           /\ log # << >>
           /\ log[Len(log)].ev = "raise"
           /\ y_spec = None
           /\ v_spec = None
           /\ mask_tta = None
           /\ ~tta => mask = None
           /\ ~ENABLED Next

\* predict_mask raised on a batch that was not the first one of the second
\* pass.
C9_Witness ==
    /\ error = "InferenceFailure"
    /\ pass = 2
    /\ i > 0
    /\ Cardinality(Events("predict", 2)) >= 2

\* ------------------------------------------------------------------
\* C10
\* ------------------------------------------------------------------

\* C10: taking output frame j of patch k to describe padded frame
\* k*roi_size + offset + j, every frame t of the trimmed mask of either pass
\* describes input frame t: the assembled mask starts at padded frame offset,
\* pad_left is offset in the first pass, and the roi_size // 2 frames dropped
\* in the second pass undo its extra left padding.  Every patch is cropsize
\* frames wide and lies inside the padded array.
C10_Alignment ==
    /\ \A k \in DOMAIN X_dataset :
           /\ (k - 1) * roi_size + cropsize <= Len(X_mag_pad)
           /\ X_dataset[k] = SubSeq(X_mag_pad, (k - 1) * roi_size + 1,
                                    (k - 1) * roi_size + cropsize)
    /\ \A t \in DOMAIN acc :
           /\ offset + t <= Len(X_mag_pad)
           /\ acc[t].at = X_mag_pad[offset + t].at
    /\ pass = 1 => \A t \in 1 .. Min(n_frame, Len(acc)) : acc[t].at = t - 1
    /\ \A t \in 1 .. Min(n_frame, Len(mask)) : mask[t].at = t - 1
    /\ \A t \in 1 .. Min(n_frame, Len(mask_tta)) : mask_tta[t].at = t - 1
    /\ (pass = 1 /\ pc = "loop" /\ i >= patches) =>
           Len(acc) = Len(X_mag_pad) - 2 * offset

\* A dual-pass run that ended, with an offset, a real half-stride shift and a
\* second-pass mask that reaches past the input.
C10_Witness ==
    /\ tta
    /\ pc = "done"
    /\ offset >= 1
    /\ roi_size \div 2 >= 1
    /\ n_frame >= 2
    /\ Len(mask_tta) > n_frame
    /\ mask_tta[n_frame].at = n_frame - 1

=============================================================================
